---- MODULE Spec2Model ----
(***************************************************************************)
(* shortgen: the per-file pipeline of main.py (reframe, transcribe, burn,  *)
(* cleanup, publish) over a file system of stage outputs, and the subtitle *)
(* segmentation of subtitles.py.                                           *)
(*                                                                         *)
(* Two specifications share the module:                                    *)
(*   Spec     the orchestrator main() run up to MaxRuns times over the     *)
(*            same output directory;                                       *)
(*   SegSpec  the segment loop of generate_subtitles applied to bounded    *)
(*            transcriptions.                                              *)
(***************************************************************************)
EXTENDS Integers, Sequences, FiniteSets, TLC

VARIABLES
    \* ---- orchestrator (main.py) ----
    args,          \* parsed command line: keep_temp, no_subs, upload, max_words
    video_files,   \* the list main() iterates
    run,           \* which invocation of the program this is
    idx,           \* position of the for loop in video_files (0 before the first)
    pc,            \* statement main() is at
    fs,            \* output directory: path -> file
    short_video,   \* local of main
    srt_file,      \* local of main
    final_video,   \* local of main
    invoked,       \* stage calls made for the current item, in order
    completed,     \* "Completed" was logged for the current item (main.py:184)
    failed,        \* stage whose failure was logged for the current item
    n_completed,   \* "Completed" lines logged in this run
    n_failed,      \* "Failed" lines logged in this run
    attempted,     \* items of this run whose reframe stage was entered
    watched,       \* the item whose outcome is remembered from run to run
    watched_last,  \* how the watched item ended the last time it was processed
    \* ---- segment loop of generate_subtitles (subtitles.py) ----
    segments,      \* what whisper_model.transcribe returned
    max_words,     \* the max_words argument
    seg_i,         \* segments consumed by the for loop
    subtitle_chunks, \* the list the loop builds
    seg_marks,     \* Len(subtitle_chunks) after each consumed segment
    seg_pc,        \* "loop", "written" or "raised"
    \* ---- one call of convert_to_short (converter.py) ----
    total_duration, \* length of the input video, in seconds
    clip_duration, \* the duration argument (--duration)
    out_exists,    \* output_file.exists() at entry
    probe,         \* "none", "ok" or "failed": how the ffprobe step ended
    start_time,    \* local of convert_to_short
    cmd,           \* the ffmpeg command that was run: its -ss and -t
    cmd_pc         \* "entry", "ffmpeg", "returned" or "raised"

vars == <<args, video_files, run, idx, pc, fs, short_video, srt_file, final_video,
          invoked, completed, failed, n_completed, n_failed, attempted,
          watched, watched_last,
          segments, max_words, seg_i, subtitle_chunks, seg_marks, seg_pc,
          total_duration, clip_duration, out_exists, probe, start_time, cmd, cmd_pc>>

pipe_vars == <<args, video_files, run, idx, pc, fs, short_video, srt_file,
               final_video, invoked, completed, failed, n_completed, n_failed,
               attempted, watched, watched_last>>

hist_vars == <<watched, watched_last>>

seg_vars == <<segments, max_words, seg_i, subtitle_chunks, seg_marks, seg_pc>>

cmd_vars == <<total_duration, clip_duration, out_exists, probe, start_time, cmd, cmd_pc>>

----------------------------------------------------------------------------
(* Bounds *)

MaxRuns == 2          \* invocations of the program over one output directory
MaxSegWords == 3      \* words in one segment's word list
MaxTextWords == 4     \* whitespace-separated words in a segment text
MaxSegs == 2          \* segments in one transcription
MaxK == 3             \* largest --max-words tried
MaxTotal == 4         \* longest input video, in seconds
MaxWindow == 3        \* largest --duration tried, in seconds

----------------------------------------------------------------------------
(* Text: a string is a sequence of one-character strings.                  *)

Min(a, b) == IF a <= b THEN a ELSE b

RECURSIVE lstrip(_)
lstrip(s) == IF s # <<>> /\ Head(s) = " " THEN lstrip(Tail(s)) ELSE s

RECURSIVE rstrip(_)
rstrip(s) ==
    IF s # <<>> /\ s[Len(s)] = " " THEN rstrip(SubSeq(s, 1, Len(s) - 1)) ELSE s

\* str.strip()
strip(s) == rstrip(lstrip(s))

\* str.split(): the maximal runs of non-whitespace characters
RECURSIVE split_from(_, _, _)
split_from(s, cur, acc) ==
    IF s = <<>>
    THEN IF cur = <<>> THEN acc ELSE Append(acc, cur)
    ELSE IF Head(s) = " "
         THEN split_from(Tail(s), <<>>, IF cur = <<>> THEN acc ELSE Append(acc, cur))
         ELSE split_from(Tail(s), Append(cur, Head(s)), acc)

split(s) == split_from(s, <<>>, <<>>)

\* ' '.join(parts)
RECURSIVE join(_)
join(parts) ==
    IF parts = <<>> THEN <<>>
    ELSE IF Len(parts) = 1 THEN parts[1]
    ELSE parts[1] \o <<" ">> \o join(Tail(parts))

\* [w.word.strip() for w in chunk]
RECURSIVE stripped_words(_)
stripped_words(chunk) ==
    IF chunk = <<>> THEN <<>>
    ELSE <<strip(chunk[1].word)>> \o stripped_words(Tail(chunk))

----------------------------------------------------------------------------
(* Times are exact rationals n/d in lowest terms (the code uses floats).   *)

RECURSIVE GCD(_, _)
GCD(a, b) == IF b = 0 THEN a ELSE GCD(b, a % b)

Rat(n, d) == LET g == GCD(n, d) IN [n |-> n \div g, d |-> d \div g]

T(n) == [n |-> n, d |-> 1]

----------------------------------------------------------------------------
(* subtitles.py: split_into_chunks and the segment loop                    *)

\* the dict appended at subtitles.py:31-35 and 40-44
chunk_of(current_chunk) ==
    [start |-> current_chunk[1].start,
     end   |-> current_chunk[Len(current_chunk)].end,
     text  |-> join(stripped_words(current_chunk))]

\* the for loop of split_into_chunks from word i on; a chunk is closed when
\* len(current_chunk) >= limit
RECURSIVE chunk_loop(_, _, _, _, _)
chunk_loop(words, limit, i, chunks, current_chunk) ==
    IF i > Len(words)
    THEN IF current_chunk # <<>>
         THEN Append(chunks, chunk_of(current_chunk))
         ELSE chunks
    ELSE LET cur == Append(current_chunk, words[i])
         IN  IF Len(cur) >= limit
             THEN chunk_loop(words, limit, i + 1, Append(chunks, chunk_of(cur)), <<>>)
             ELSE chunk_loop(words, limit, i + 1, chunks, cur)

\* a slip: the chunk is closed one word late (> instead of >=)
split_into_chunks_late(words, k) == chunk_loop(words, k + 1, 1, <<>>, <<>>)

split_into_chunks(words, k) == chunk_loop(words, k, 1, <<>>, <<>>)

\* range(0, n, step) as the sequence of its values; step # 0
RECURSIVE range_from(_, _, _)
range_from(i, n, step) ==
    IF step > 0
    THEN IF i < n THEN <<i>> \o range_from(i + step, n, step) ELSE <<>>
    ELSE <<>>

\* a slip: every window is given max_words words' worth of time, the last
\* one too (i + max_words instead of i + len(chunk_words))
fallback_chunks_overshoot(segment, k) ==
    LET text     == strip(segment.text)
        words    == split(text)
        W        == Len(words)
        at(j)    == Rat(segment.start * W + j * (segment.end - segment.start), W)
        starts   == range_from(0, W, k)
    IN  IF W > k
        THEN IF k = 0
             THEN [err |-> TRUE, chunks |-> <<>>]
             ELSE [err |-> FALSE,
                   chunks |->
                     [c \in 1..Len(starts) |->
                        [start |-> at(starts[c]),
                         end   |-> at(starts[c] + k),
                         text  |-> join(SubSeq(words, starts[c] + 1,
                                               Min(starts[c] + k, W)))]]]
        ELSE [err |-> FALSE,
              chunks |-> <<[start |-> T(segment.start),
                            end   |-> T(segment.end),
                            text  |-> text]>>]

\* subtitles.py:99-120, the segment without word timestamps.
\* err is the ValueError of range() with a zero step.
fallback_chunks(segment, k) ==
    LET text     == strip(segment.text)
        words    == split(text)
        duration == segment.end - segment.start
        W        == Len(words)
        at(j)    == Rat(segment.start * W + j * duration, W)
        starts   == range_from(0, W, k)
    IN  IF W > k
        THEN IF k = 0
             THEN [err |-> TRUE, chunks |-> <<>>]
             ELSE [err |-> FALSE,
                   chunks |->
                     [c \in 1..Len(starts) |->
                        LET i           == starts[c]
                            chunk_words == SubSeq(words, i + 1, Min(i + k, W))
                        IN  [start |-> at(i),
                             end   |-> at(i + Len(chunk_words)),
                             text  |-> join(chunk_words)]]]
        ELSE [err |-> FALSE,
              chunks |-> <<[start |-> T(segment.start),
                            end   |-> T(segment.end),
                            text  |-> text]>>]

\* subtitles.py:93: hasattr(segment, 'words') and segment.words
has_words(segment) == segment.words # <<>>

\* one iteration of the loop at subtitles.py:92-120
segment_chunks(segment, k) ==
    IF has_words(segment)
    THEN [err |-> FALSE, chunks |-> split_into_chunks(segment.words, k)]
    ELSE fallback_chunks(segment, k)

\* the whole loop: the chunks of every segment, in order, or the error
RECURSIVE transcript_chunks(_, _)
transcript_chunks(segs, k) ==
    IF segs = <<>> THEN [err |-> FALSE, chunks |-> <<>>]
    ELSE LET first == segment_chunks(Head(segs), k)
             rest  == transcript_chunks(Tail(segs), k)
         IN  IF first.err \/ rest.err
             THEN [err |-> TRUE, chunks |-> <<>>]
             ELSE [err |-> FALSE, chunks |-> first.chunks \o rest.chunks]

----------------------------------------------------------------------------
(* Bounded transcriptions: what the ASR engine may return.                 *)

SegSpan == 12         \* seconds between the starts of successive segments

Letter(j) == IF j % 2 = 1 THEN "x" ELSE "y"

\* A word list of n words; word `blank` (if in 1..n) is whitespace only, and
\* with blank = n + 1 every word is.
WordShapes ==
    {[kind |-> "words", n |-> n, blank |-> b] :
        n \in 1..MaxSegWords, b \in 0..(MaxSegWords + 1)}

\* A segment text of n words with irregular whitespace; n = 0 is whitespace only.
TextShapes == {[kind |-> "text", n |-> n, blank |-> 0] : n \in 0..MaxTextWords}

Shapes == {s \in WordShapes : s.blank <= s.n + 1} \cup TextShapes

word_text(sh, j) ==
    IF sh.blank = j \/ sh.blank = sh.n + 1 THEN <<" ">> ELSE <<" ", Letter(j)>>

RECURSIVE text_of(_)
text_of(n) == IF n = 0 THEN <<" ", " ">> ELSE text_of(n - 1) \o <<Letter(n), " ">>

\* the segment of shape sh at position p of the transcription
segment_at(sh, p) ==
    LET t0 == (p - 1) * SegSpan
    IN  IF sh.kind = "words"
        THEN [start |-> t0, end |-> t0 + SegSpan - 1,
              text  |-> <<>>,
              words |-> [j \in 1..sh.n |->
                           [start |-> T(t0 + 3 * (j - 1)),
                            end   |-> T(t0 + 3 * (j - 1) + 2),
                            word  |-> word_text(sh, j)]]]
        ELSE [start |-> t0, end |-> t0 + SegSpan - 1,
              text  |-> text_of(sh.n),
              words |-> <<>>]

ShapeSeqs == UNION {[1..m -> Shapes] : m \in 0..MaxSegs}

Transcripts == {[p \in 1..Len(q) |-> segment_at(q[p], p)] : q \in ShapeSeqs}

\* the max_words for which some bounded transcription makes the loop raise
RaisingK == {k \in -1..MaxK : \E t \in Transcripts : transcript_chunks(t, k).err}

\* the max_words for which some bounded transcription reaches the file write
WritingK == {k \in -1..MaxK : \E t \in Transcripts : ~transcript_chunks(t, k).err}

----------------------------------------------------------------------------
(* Files and paths *)

\* the input videos
Files == {"a.mov", "a.mp4", "b.mp4"}

\* Path.stem
stem(f) == IF f \in {"a.mov", "a.mp4"} THEN "a" ELSE "b"

\* the order video_files.sort() puts paths in (utils.py:46)
Rank(f) == CASE f = "a.mov" -> 1 [] f = "a.mp4" -> 2 [] f = "b.mp4" -> 3

IsSorted(q) == \A i, j \in 1..Len(q) : i < j => Rank(q[i]) < Rank(q[j])

\* get_video_files(directory), or [input_path] for a single file
InputLists ==
    {q \in UNION {[1..m -> Files] : m \in 1..Cardinality(Files)} : IsSorted(q)}

Stems == {stem(f) : f \in Files}

\* <stem>_short.mp4, <stem>_short.srt, <stem>_short_subs.mp4 in the output directory
Paths == [stem : Stems, kind : {"short", "srt", "subs"}]

NoPath == [stem |-> "none", kind |-> "none"]       \* not assigned yet
Raised == [stem |-> "none", kind |-> "raise"]      \* the call raised
ReturnedNone == [stem |-> "none", kind |-> "None"] \* the call returned None
VideoId == [stem |-> "none", kind |-> "id"]        \* the call returned a video id

Absent == [st |-> "absent", src |-> "none"]

\* a file written completely / a file a failed write left behind
Whole(src) == [st |-> "ok", src |-> src]
Partial(src) == [st |-> "partial", src |-> src]

\* Path.exists()
Exists(fsys, p) == p \in DOMAIN fsys /\ fsys[p].st # "absent"

----------------------------------------------------------------------------
(* The stages. Each is the set of outcomes of one call: the file system    *)
(* after it, what it returned, the output path it computed and the number  *)
(* of external collaborator calls it made.                                 *)

\* what a stage does when its output already exists
skipped(fsys, output_file) ==
    {[fs |-> fsys, ret |-> output_file, out |-> output_file, ext |-> 0]}

\* ffprobe, then ffmpeg -y writing output_file directly; a failing ffmpeg may
\* leave what it had written
reframe_run(fsys, input_video, output_file) ==
    {[fs |-> [fsys EXCEPT ![output_file] = Whole(input_video)],
      ret |-> output_file, out |-> output_file, ext |-> 2]}
    \cup
    {[fs |-> [fsys EXCEPT ![output_file] = f],
      ret |-> Raised, out |-> output_file, ext |-> 2] :
        f \in {Absent, Partial(input_video)}}

\* a slip: no early return when the output exists
convert_to_short_noskip(fsys, input_video) ==
    reframe_run(fsys, input_video, [stem |-> stem(input_video), kind |-> "short"])

\* converter.py: convert_to_short
convert_to_short(fsys, input_video) ==
    LET output_file == [stem |-> stem(input_video), kind |-> "short"]
    IN  IF Exists(fsys, output_file)
        THEN skipped(fsys, output_file)
        ELSE reframe_run(fsys, input_video, output_file)

\* subtitles.py: generate_subtitles
generate_subtitles(fsys, video_file, k) ==
    LET output_file == [stem |-> video_file.stem, kind |-> "srt"]
        src == fsys[video_file].src
        raise == [fs |-> fsys, ret |-> Raised, out |-> output_file, ext |-> 1]
    IN  IF Exists(fsys, output_file)
        THEN skipped(fsys, output_file)
        ELSE \* ImportError, model load or transcription failure: nothing opened
             {raise}
             \cup
             \* the segment loop raises (range() with a zero step)
             {raise : x \in {k} \cap RaisingK}
             \cup
             \* open(output_file, "w") and every write succeed
             {[fs |-> [fsys EXCEPT ![output_file] = Whole(src)],
               ret |-> output_file, out |-> output_file, ext |-> 1] :
                 x \in {k} \cap WritingK}
             \cup
             \* a write fails after open() created the file
             {[fs |-> [fsys EXCEPT ![output_file] = Partial(src)],
               ret |-> Raised, out |-> output_file, ext |-> 1] :
                 x \in {k} \cap WritingK}

\* overlay.py: burn_subtitles
burn_subtitles(fsys, video_file, srt) ==
    LET output_file == [stem |-> video_file.stem, kind |-> "subs"]
        src == fsys[video_file].src
    IN  IF Exists(fsys, output_file)
        THEN skipped(fsys, output_file)
        ELSE {[fs |-> [fsys EXCEPT ![output_file] = Whole(src)],
               ret |-> output_file, out |-> output_file, ext |-> 1]}
             \cup
             {[fs |-> [fsys EXCEPT ![output_file] = f],
               ret |-> Raised, out |-> output_file, ext |-> 1] :
                 f \in {Absent, Partial(src)}}

\* uploader.py: upload_to_youtube; a video id, None (authentication failed,
\* file missing, HttpError, any upload error) or an exception (token file)
upload_to_youtube(fsys, video_file) ==
    {[fs |-> fsys, ret |-> r, out |-> NoPath, ext |-> 1] :
        r \in IF Exists(fsys, video_file)
              THEN {VideoId, ReturnedNone, Raised}
              ELSE {ReturnedNone, Raised}}

\* Path.unlink(): removes the file, or raises and removes nothing
unlink(fsys, p) ==
    {[fs |-> fsys, ok |-> FALSE]}
    \cup
    {[fs |-> [fsys EXCEPT ![p] = Absent], ok |-> TRUE] : x \in {p} \cap {q \in Paths : Exists(fsys, q)}}

----------------------------------------------------------------------------
(* main.py: the loop over video_files                                      *)

\* --max-words as given on the command line: the default 1, and 0
ArgMaxWords == {0, 1}

video_file == video_files[idx]

\* the record of one stage call of the current item
call(stage, o) ==
    [stage |-> stage, existed |-> Exists(fs, o.out), ext |-> o.ext,
     ret |-> o.ret, changed |-> o.fs # fs]

\* main.py:161
captioning_always == TRUE

captioning == ~args.no_subs

\* main.py:177
cleanup_always == TRUE

cleanup_wanted == ~args.keep_temp

\* main.py:187
upload_wanted == args.upload

\* a slip: the handler leaves the loop (break)
except_break(stage) ==
    /\ failed' = stage
    /\ n_failed' = n_failed + 1
    /\ pc' = "exit"

\* main.py:212-216: log the failure, continue with the next item
except_handler(stage) ==
    /\ failed' = stage
    /\ n_failed' = n_failed + 1
    /\ pc' = "loop"

\* main.py:184-187: log "Completed", then upload if requested
log_completed ==
    /\ completed' = TRUE
    /\ n_completed' = n_completed + 1
    /\ pc' = IF upload_wanted THEN "publish" ELSE "loop"

\* the stages of the current item that returned successfully, in order
ok_stages ==
    LET ok == SelectSeq(invoked, LAMBDA c : c.stage # "cleanup"
                                            /\ c.ret \notin {Raised, ReturnedNone})
    IN  [i \in 1..Len(ok) |-> ok[i].stage]

\* how the current item ended: what main logged for it (main.py:184, 210, 213)
item_summary == [ok |-> ok_stages, failed |-> failed, completed |-> completed]

\* the item has not been processed yet
NoSummary == [ok |-> <<>>, failed |-> "none", completed |-> FALSE]

\* main.py:151-152: the for statement takes the next item
ForNext ==
    /\ pc = "loop"
    /\ idx < Len(video_files)
    /\ idx' = idx + 1
    /\ pc' = "reframe"
    /\ short_video' = NoPath
    /\ srt_file' = NoPath
    /\ final_video' = NoPath
    /\ invoked' = <<>>
    /\ completed' = FALSE
    /\ failed' = "none"
    /\ UNCHANGED <<args, video_files, run, fs, n_completed, n_failed, attempted>>
    /\ watched_last' = IF idx = watched THEN item_summary ELSE watched_last
    /\ UNCHANGED watched
    /\ UNCHANGED seg_vars
    /\ UNCHANGED cmd_vars

\* main.py:218: the list is exhausted
ForEnd ==
    /\ pc = "loop"
    /\ idx = Len(video_files)
    /\ pc' = "exit"
    /\ UNCHANGED <<args, video_files, run, idx, fs, short_video, srt_file,
                   final_video, invoked, completed, failed, n_completed,
                   n_failed, attempted>>
    /\ watched_last' = IF idx = watched THEN item_summary ELSE watched_last
    /\ UNCHANGED watched
    /\ UNCHANGED seg_vars
    /\ UNCHANGED cmd_vars

\* main.py:157-158, and 181-184 when captioning is disabled
Reframe ==
    /\ pc = "reframe"
    /\ \E o \in convert_to_short(fs, video_file) :
         /\ fs' = o.fs
         /\ invoked' = Append(invoked, call("reframe", o))
         /\ attempted' = attempted \cup {idx}
         /\ IF o.ret = Raised
            THEN /\ except_handler("reframe")
                 /\ UNCHANGED <<short_video, final_video, completed, n_completed>>
            ELSE /\ short_video' = o.ret
                 /\ IF captioning
                    THEN /\ pc' = "transcribe"
                         /\ UNCHANGED <<final_video, completed, n_completed>>
                    ELSE /\ final_video' = o.ret
                         /\ log_completed
                 /\ UNCHANGED <<failed, n_failed>>
    /\ UNCHANGED <<args, video_files, run, idx, srt_file>>
    /\ UNCHANGED hist_vars
    /\ UNCHANGED seg_vars
    /\ UNCHANGED cmd_vars

\* main.py:163-169
Transcribe ==
    /\ pc = "transcribe"
    /\ \E o \in generate_subtitles(fs, short_video, args.max_words) :
         /\ fs' = o.fs
         /\ invoked' = Append(invoked, call("transcribe", o))
         /\ IF o.ret = Raised
            THEN /\ except_handler("transcribe")
                 /\ UNCHANGED srt_file
            ELSE /\ srt_file' = o.ret
                 /\ pc' = "burn"
                 /\ UNCHANGED <<failed, n_failed>>
    /\ UNCHANGED <<args, video_files, run, idx, short_video, final_video,
                   completed, n_completed, attempted>>
    /\ UNCHANGED hist_vars
    /\ UNCHANGED seg_vars
    /\ UNCHANGED cmd_vars

\* main.py:173-174
Burn ==
    /\ pc = "burn"
    /\ \E o \in burn_subtitles(fs, short_video, srt_file) :
         /\ fs' = o.fs
         /\ invoked' = Append(invoked, call("burn", o))
         /\ IF o.ret = Raised
            THEN /\ except_handler("burn")
                 /\ UNCHANGED final_video
            ELSE /\ final_video' = o.ret
                 /\ pc' = "cleanup"
                 /\ UNCHANGED <<failed, n_failed>>
    /\ UNCHANGED <<args, video_files, run, idx, short_video, srt_file,
                   completed, n_completed, attempted>>
    /\ UNCHANGED hist_vars
    /\ UNCHANGED seg_vars
    /\ UNCHANGED cmd_vars

\* the entry of invoked for the two unlink calls
cleanup_call(newfs, ok) ==
    [stage |-> "cleanup", existed |-> FALSE, ext |-> 0,
     ret |-> IF ok THEN NoPath ELSE Raised, changed |-> newfs # fs]

\* main.py:176-184: short_video.unlink(); srt_file.unlink(); log "Completed"
Cleanup ==
    /\ pc = "cleanup"
    /\ IF cleanup_wanted
       THEN \E u1 \in unlink(fs, short_video) :
              IF ~u1.ok
              THEN /\ fs' = u1.fs
                   /\ invoked' = Append(invoked, cleanup_call(u1.fs, FALSE))
                   /\ except_handler("cleanup")
                   /\ UNCHANGED <<completed, n_completed>>
              ELSE \E u2 \in unlink(u1.fs, srt_file) :
                     /\ fs' = u2.fs
                     /\ invoked' = Append(invoked, cleanup_call(u2.fs, u2.ok))
                     /\ IF ~u2.ok
                        THEN /\ except_handler("cleanup")
                             /\ UNCHANGED <<completed, n_completed>>
                        ELSE /\ log_completed
                             /\ UNCHANGED <<failed, n_failed>>
       ELSE /\ log_completed
            /\ UNCHANGED <<fs, invoked, failed, n_failed>>
    /\ UNCHANGED <<args, video_files, run, idx, short_video, srt_file,
                   final_video, attempted>>
    /\ UNCHANGED hist_vars
    /\ UNCHANGED seg_vars
    /\ UNCHANGED cmd_vars

\* main.py:187-210
Publish ==
    /\ pc = "publish"
    /\ \E o \in upload_to_youtube(fs, final_video) :
         /\ fs' = o.fs
         /\ invoked' = Append(invoked, call("publish", o))
         /\ CASE o.ret = Raised -> except_handler("publish")
              [] o.ret = ReturnedNone ->
                   \* main.py:210 logs the error; the loop body ends
                   /\ failed' = "publish"
                   /\ n_failed' = n_failed + 1
                   /\ pc' = "loop"
              [] OTHER ->
                   /\ pc' = "loop"
                   /\ UNCHANGED <<failed, n_failed>>
    /\ UNCHANGED <<args, video_files, run, idx, short_video, srt_file,
                   final_video, completed, n_completed, attempted>>
    /\ UNCHANGED hist_vars
    /\ UNCHANGED seg_vars
    /\ UNCHANGED cmd_vars

\* the same command is run again over the same output directory
Rerun ==
    /\ pc = "exit"
    /\ run < MaxRuns
    /\ run' = run + 1
    /\ idx' = 0
    /\ pc' = "loop"
    /\ short_video' = NoPath
    /\ srt_file' = NoPath
    /\ final_video' = NoPath
    /\ invoked' = <<>>
    /\ completed' = FALSE
    /\ failed' = "none"
    /\ n_completed' = 0
    /\ n_failed' = 0
    /\ attempted' = {}
    /\ UNCHANGED <<args, video_files, fs>>
    /\ UNCHANGED hist_vars
    /\ UNCHANGED seg_vars
    /\ UNCHANGED cmd_vars

\* no ffmpeg command yet
NoCmd == [ss |-> -1, t |-> -1]

CmdIdle ==
    /\ total_duration = 0
    /\ clip_duration = 0
    /\ out_exists = FALSE
    /\ probe = "none"
    /\ start_time = 0
    /\ cmd = NoCmd
    /\ cmd_pc = "idle"

SegIdle ==
    /\ segments = <<>>
    /\ max_words = 1
    /\ seg_i = 0
    /\ subtitle_chunks = <<>>
    /\ seg_marks = <<>>
    /\ seg_pc = "idle"

\* main.py:124-148: arguments parsed, output directory created, inputs listed
Init ==
    /\ args \in [keep_temp : BOOLEAN, no_subs : BOOLEAN, upload : BOOLEAN,
                 max_words : ArgMaxWords]
    /\ video_files \in InputLists
    /\ run = 1
    /\ idx = 0
    /\ pc = "loop"
    /\ fs = [p \in Paths |-> Absent]
    /\ short_video = NoPath
    /\ srt_file = NoPath
    /\ final_video = NoPath
    /\ invoked = <<>>
    /\ completed = FALSE
    /\ failed = "none"
    /\ n_completed = 0
    /\ n_failed = 0
    /\ attempted = {}
    /\ watched \in 1..Len(video_files)
    /\ watched_last = NoSummary
    /\ SegIdle
    /\ CmdIdle

Next ==
    \/ ForNext
    \/ ForEnd
    \/ Reframe
    \/ Transcribe
    \/ Burn
    \/ Cleanup
    \/ Publish
    \/ Rerun

Spec == Init /\ [][Next]_vars

----------------------------------------------------------------------------
(* generate_subtitles: the loop over the segments, one segment per step    *)

PipeIdle ==
    /\ args = [keep_temp |-> FALSE, no_subs |-> FALSE, upload |-> FALSE,
               max_words |-> 1]
    /\ video_files = <<>>
    /\ run = 1
    /\ idx = 0
    /\ pc = "idle"
    /\ fs = [p \in Paths |-> Absent]
    /\ short_video = NoPath
    /\ srt_file = NoPath
    /\ final_video = NoPath
    /\ invoked = <<>>
    /\ completed = FALSE
    /\ failed = "none"
    /\ n_completed = 0
    /\ n_failed = 0
    /\ attempted = {}
    /\ watched = 0
    /\ watched_last = NoSummary

\* subtitles.py:82-91: the engine returned the segments; the list is empty
SegInit ==
    /\ PipeIdle
    /\ CmdIdle
    /\ segments \in Transcripts
    /\ max_words \in -1..MaxK
    /\ seg_i = 0
    /\ subtitle_chunks = <<>>
    /\ seg_marks = <<>>
    /\ seg_pc = "loop"

segment == segments[seg_i + 1]

\* subtitles.py:96: subtitle_chunks.extend(chunks)
extend(chunks) ==
    /\ subtitle_chunks' = subtitle_chunks \o chunks
    /\ seg_marks' = Append(seg_marks, Len(subtitle_chunks) + Len(chunks))
    /\ seg_i' = seg_i + 1

\* subtitles.py:92-96: a segment with word timestamps
SegWords ==
    /\ seg_pc = "loop"
    /\ seg_i < Len(segments)
    /\ has_words(segment)
    /\ extend(segment_chunks(segment, max_words).chunks)
    /\ UNCHANGED <<segments, max_words, seg_pc>>
    /\ UNCHANGED pipe_vars
    /\ UNCHANGED cmd_vars

\* subtitles.py:97-120: a segment without word timestamps
SegFallback ==
    /\ seg_pc = "loop"
    /\ seg_i < Len(segments)
    /\ ~has_words(segment)
    /\ LET r == segment_chunks(segment, max_words)
       IN  IF r.err
           THEN /\ seg_pc' = "raised"
                /\ UNCHANGED <<seg_i, subtitle_chunks, seg_marks>>
           ELSE /\ extend(r.chunks)
                /\ UNCHANGED seg_pc
    /\ UNCHANGED <<segments, max_words>>
    /\ UNCHANGED pipe_vars
    /\ UNCHANGED cmd_vars

\* subtitles.py:122-133: every chunk is written to the .srt file
SegWrite ==
    /\ seg_pc = "loop"
    /\ seg_i = Len(segments)
    /\ seg_pc' = "written"
    /\ UNCHANGED <<segments, max_words, seg_i, subtitle_chunks, seg_marks>>
    /\ UNCHANGED pipe_vars
    /\ UNCHANGED cmd_vars

SegNext ==
    \/ SegWords
    \/ SegFallback
    \/ SegWrite

SegSpec == SegInit /\ [][SegNext]_vars

----------------------------------------------------------------------------
(* convert_to_short: the extraction window of one call                     *)

Max(a, b) == IF a >= b THEN a ELSE b

\* converter.py:45-55: start_time after the ffprobe step
start_time_of(total, window, probed) ==
    IF probed THEN Max(0, total - window) ELSE 0

\* converter.py:64-68: "-ss", str(start_time), ..., "-t", str(duration)
ffmpeg_cmd(start, window) == [ss |-> start, t |-> window]

\* converter.py:12-29: the call is entered
CmdInit ==
    /\ PipeIdle
    /\ SegIdle
    /\ total_duration \in 0..MaxTotal
    /\ clip_duration \in 1..MaxWindow
    /\ out_exists \in BOOLEAN
    /\ probe = "none"
    /\ start_time = 0
    /\ cmd = NoCmd
    /\ cmd_pc = "entry"

\* converter.py:31-34: the output exists
CmdSkip ==
    /\ cmd_pc = "entry"
    /\ out_exists
    /\ cmd_pc' = "returned"
    /\ UNCHANGED <<total_duration, clip_duration, out_exists, probe, start_time, cmd>>
    /\ UNCHANGED <<pipe_vars, seg_vars>>

\* converter.py:45-52: ffprobe reports the duration
CmdProbeOk ==
    /\ cmd_pc = "entry"
    /\ ~out_exists
    /\ probe' = "ok"
    /\ start_time' = start_time_of(total_duration, clip_duration, TRUE)
    /\ cmd_pc' = "ffmpeg"
    /\ UNCHANGED <<total_duration, clip_duration, out_exists, cmd>>
    /\ UNCHANGED <<pipe_vars, seg_vars>>

\* converter.py:53-55: ffprobe fails or prints no number
CmdProbeFail ==
    /\ cmd_pc = "entry"
    /\ ~out_exists
    /\ probe' = "failed"
    /\ start_time' = start_time_of(total_duration, clip_duration, FALSE)
    /\ cmd_pc' = "ffmpeg"
    /\ UNCHANGED <<total_duration, clip_duration, out_exists, cmd>>
    /\ UNCHANGED <<pipe_vars, seg_vars>>

\* converter.py:64-100: ffmpeg is run and succeeds
CmdFfmpegOk ==
    /\ cmd_pc = "ffmpeg"
    /\ cmd' = ffmpeg_cmd(start_time, clip_duration)
    /\ out_exists' = TRUE
    /\ cmd_pc' = "returned"
    /\ UNCHANGED <<total_duration, clip_duration, probe, start_time>>
    /\ UNCHANGED <<pipe_vars, seg_vars>>

\* converter.py:96-98: ffmpeg is run and fails; it may leave a file behind
CmdFfmpegFail ==
    /\ cmd_pc = "ffmpeg"
    /\ cmd' = ffmpeg_cmd(start_time, clip_duration)
    /\ out_exists' \in BOOLEAN
    /\ cmd_pc' = "raised"
    /\ UNCHANGED <<total_duration, clip_duration, probe, start_time>>
    /\ UNCHANGED <<pipe_vars, seg_vars>>

CmdNext ==
    \/ CmdSkip
    \/ CmdProbeOk
    \/ CmdProbeFail
    \/ CmdFfmpegOk
    \/ CmdFfmpegFail

CmdSpec == CmdInit /\ [][CmdNext]_vars

----------------------------------------------------------------------------
(* Properties *)

\* the four stages called for the current item, without the cleanup entry
stage_calls == SelectSeq(invoked, LAMBDA c : c.stage # "cleanup")

stage_names(calls) == [i \in 1..Len(calls) |-> calls[i].stage]

\* the stages the command line asks for, in order
requested_chain ==
    <<"reframe">>
    \o (IF args.no_subs THEN <<>> ELSE <<"transcribe", "burn">>)
    \o (IF args.upload THEN <<"publish">> ELSE <<>>)

IsPrefix(a, b) == Len(a) <= Len(b) /\ a = SubSeq(b, 1, Len(a))

succeeded(c) == c.ret \notin {Raised, ReturnedNone}

\* the output path of a stage for the current item
expected_out(stage) ==
    [stem |-> stem(video_file),
     kind |-> CASE stage = "reframe" -> "short"
                [] stage = "transcribe" -> "srt"
                [] stage = "burn" -> "subs"]

C2_SkipWhenOutputExists ==
    \A i \in 1..Len(invoked) :
        LET c == invoked[i]
        IN  (c.stage \in {"reframe", "transcribe", "burn"} /\ c.existed) =>
              /\ c.ext = 0
              /\ c.ret = expected_out(c.stage)
              /\ ~c.changed

\* the second run skips all three stages of an item again
C2_Witness ==
    /\ run = 2
    /\ args.keep_temp
    /\ Len(invoked) >= 3
    /\ \A i \in 1..3 : invoked[i].existed /\ invoked[i].ext = 0
    /\ stage_names(SubSeq(invoked, 1, 3)) = <<"reframe", "transcribe", "burn">>

\* C3: with max-words below 1 the run fails before any item is processed: no
\* stage of any item is called and no output file is created.
C3_InvalidMaxWordsFailsFast ==
    args.max_words < 1 =>
        /\ attempted = {}
        /\ invoked = <<>>
        /\ \A p \in Paths : ~Exists(fs, p)

\* a segment whose text is all whitespace
all_whitespace(seg) ==
    IF has_words(seg)
    THEN \A j \in 1..Len(seg.words) : strip(seg.words[j].word) = <<>>
    ELSE strip(seg.text) = <<>>

\* the number of chunks consumed segment p contributed
contributed(p) == seg_marks[p] - (IF p = 1 THEN 0 ELSE seg_marks[p - 1])

\* C4: with max_words >= 1, a segment whose text is all whitespace contributes
\* no cue (on both paths), and every cue has non-empty text after trimming.
C4_NoEmptyCue ==
    max_words >= 1 =>
        /\ \A p \in 1..seg_i : all_whitespace(segments[p]) => contributed(p) = 0
        /\ seg_pc = "written" =>
              \A c \in 1..Len(subtitle_chunks) : strip(subtitle_chunks[c].text) # <<>>

\* C5: with max_words = k >= 1 a word list of N words gives ceil(N/k) cues; cue
\* j is made of words (j-1)k+1 .. min(jk, N) of that same segment: it starts at
\* the first one's start, ends at the last one's end and carries their texts.
C5_ChunkCountLaw ==
    max_words >= 1 =>
        \A p \in 1..seg_i :
            has_words(segments[p]) =>
                LET words == segments[p].words
                    N     == Len(words)
                    k     == max_words
                    base  == seg_marks[p] - contributed(p)
                IN  /\ contributed(p) = (N + k - 1) \div k
                    /\ \A j \in 1..contributed(p) :
                         LET cue   == subtitle_chunks[base + j]
                             first == (j - 1) * k + 1
                             last  == Min(j * k, N)
                         IN  /\ first <= last
                             /\ last - first + 1 <= k
                             /\ (j < contributed(p) => last - first + 1 = k)
                             /\ cue.start = words[first].start
                             /\ cue.end = words[last].end
                             /\ cue.text =
                                  join(stripped_words(SubSeq(words, first, last)))

\* two word-list segments of 3 and 2 words with k = 2: cues of 2, 1 and 2 words
C5_Witness ==
    /\ seg_pc = "written"
    /\ max_words = 2
    /\ Len(segments) = 2
    /\ Len(segments[1].words) = 3
    /\ Len(segments[2].words) = 2
    /\ Len(subtitle_chunks) = 3

\* C6: the stages of an item are called in the order reframe, transcribe,
\* burn, publish, each only after the call before it returned successfully;
\* transcribe and burn are not called when captioning is disabled and publish
\* only when upload was requested.
C6_StageOrder ==
    /\ IsPrefix(stage_names(stage_calls), requested_chain)
    /\ \A i \in 1..(Len(invoked) - 1) : succeeded(invoked[i])
    /\ pc \in {"transcribe", "burn", "cleanup", "publish"} =>
         \A i \in 1..Len(invoked) : succeeded(invoked[i])

\* the whole chain of a captioned, uploaded item has run
C6_Witness ==
    /\ pc = "loop"
    /\ stage_names(invoked) = <<"reframe", "transcribe", "burn", "cleanup", "publish">>
    /\ \A i \in 1..Len(invoked) : succeeded(invoked[i])

\* a step that removes a file of the output directory
Deletes(p) == Exists(fs, p) /\ ~Exists(fs', p)

publish_succeeded ==
    \E i \in 1..Len(invoked) : invoked[i].stage = "publish" /\ invoked[i].ret = VideoId

cleanup_raised ==
    \E i \in 1..Len(invoked) : invoked[i].stage = "cleanup" /\ invoked[i].ret = Raised

\* C8: a failed deletion of an intermediate is only logged: the item is not
\* a failed item, it is completed, and a requested publish is still called.
C8_CleanupFailureOnlyLogged ==
    cleanup_raised =>
        /\ failed # "cleanup"
        /\ completed
        /\ (args.upload /\ pc = "loop") =>
              \E i \in 1..Len(invoked) : invoked[i].stage = "publish"

\* C9: a processed item has exactly one outcome, Success when every requested
\* stage succeeded and Failure otherwise, and the numbers of successes and
\* failures logged sum to the number of items processed.
C9_OneOutcomePerItem ==
    (pc \in {"loop", "exit"} /\ idx >= 1) =>
        /\ completed # (failed # "none")
        /\ completed <=> (/\ stage_names(stage_calls) = requested_chain
                          /\ \A i \in 1..Len(invoked) : succeeded(invoked[i]))
        /\ n_completed + n_failed = idx

\* C10: in every reachable state an existing stage output is one its stage
\* completed successfully: no failed stage leaves a file at its output path.
C10_ExistingOutputIsComplete ==
    \A p \in Paths : Exists(fs, p) => fs[p].st = "ok"

\* the part of the input the command extracts: from -ss for -t seconds
extracted(c, total) == [from |-> Min(c.ss, total), to |-> Min(c.ss + c.t, total)]

\* C11: when the probe succeeds ffmpeg starts at max(0, total - window), never
\* below 0; when the probe fails the stage still runs ffmpeg, from 0, and
\* processes the full file.
C11_StartTimeAndDegrade ==
    cmd # NoCmd =>
        /\ cmd.ss >= 0
        /\ probe = "ok" => cmd.ss = Max(0, total_duration - clip_duration)
        /\ probe = "failed" =>
              /\ cmd.ss = 0
              /\ extracted(cmd, total_duration) = [from |-> 0, to |-> total_duration]

\* a - b for two times
RatSub(a, b) == Rat(a.n * b.d - b.n * a.d, a.d * b.d)

\* C12: with max_words = k >= 1, a segment without word list whose text has W
\* words gives, when W > k, ceil(W/k) cues of k words (the last may have fewer)
\* that tile the segment: the first starts at segment.start, each starts where
\* the one before ended, each lasts its word count times (end - start)/W, and
\* the last ends at segment.end; when W <= k it gives one cue spanning the
\* segment.
C12_FallbackTiling ==
    max_words >= 1 =>
        \A p \in 1..seg_i :
            ~has_words(segments[p]) =>
                LET seg   == segments[p]
                    words == split(seg.text)
                    W     == Len(words)
                    k     == max_words
                    n     == contributed(p)
                    base  == seg_marks[p] - n
                    cue(j) == subtitle_chunks[base + j]
                    count(j) == Min(k, W - (j - 1) * k)
                IN  IF W <= k
                    THEN /\ n = 1
                         /\ cue(1).start = T(seg.start)
                         /\ cue(1).end = T(seg.end)
                    ELSE /\ n = (W + k - 1) \div k
                         /\ cue(1).start = T(seg.start)
                         /\ cue(n).end = T(seg.end)
                         /\ \A j \in 2..n : cue(j).start = cue(j - 1).end
                         /\ \A j \in 1..n :
                              /\ count(j) >= 1
                              /\ j < n => count(j) = k
                              /\ RatSub(cue(j).end, cue(j).start)
                                   = Rat(count(j) * (seg.end - seg.start), W)
                              /\ cue(j).text =
                                   join(SubSeq(words, (j - 1) * k + 1,
                                               (j - 1) * k + count(j)))

\* a 3-word text with k = 2: two cues, the second of one word, meeting at a
\* time that is no whole second
C12_Witness ==
    /\ seg_pc = "written"
    /\ max_words = 2
    /\ Len(segments) = 1
    /\ ~has_words(segments[1])
    /\ Len(split(segments[1].text)) = 3
    /\ Len(subtitle_chunks) = 2
    /\ subtitle_chunks[1].end = subtitle_chunks[2].start
    /\ subtitle_chunks[1].end.d # 1
    /\ subtitle_chunks[2].end = T(segments[1].end)

\* C13: items are independent: a stage of an item is never skipped on an
\* output file made from another input, and the final artifact of a completed
\* item is derived from that item's own source file.
C13_ItemsIndependent ==
    /\ \A i \in 1..Len(invoked) :
         (i = Len(invoked) /\ invoked[i].existed) =>
            fs[invoked[i].ret].src = video_file
    /\ completed => Exists(fs, final_video) /\ fs[final_video].src = video_file


\* the stage calls of the watched item in a run after one in which it was
\* processed; watched_last is then how it ended in the run before
later_run_of_watched == run >= 2 /\ idx = watched /\ pc # "exit"

\* C14: after a captioned run of an item succeeded with keep-intermediates
\* false, the next run of the item calls the reframe tools and the ASR engine
\* again, skips only the burn-in, which returns the existing final file and
\* leaves the disk as it was, and once the item is completed again its
\* intermediates are deleted again.
C14_SecondRunRegenerates ==
    ( /\ later_run_of_watched
      /\ watched_last.completed /\ watched_last.failed = "none"
      /\ captioning /\ cleanup_wanted ) =>
        /\ \A i \in 1..Len(invoked) :
             LET c == invoked[i]
             IN  /\ c.stage = "reframe" => ~c.existed /\ c.ext = 2
                 /\ c.stage = "transcribe" => ~c.existed /\ c.ext = 1
                 /\ c.stage = "burn" =>
                       /\ c.existed /\ c.ext = 0 /\ ~c.changed
                       /\ c.ret = expected_out("burn")
        /\ completed =>
             /\ ~Exists(fs, expected_out("reframe"))
             /\ ~Exists(fs, expected_out("transcribe"))
             /\ Exists(fs, expected_out("burn"))

file_stages == {"reframe", "transcribe", "burn"}

\* C15: when the reframe, transcribe or burn stage of an item fails, that is
\* the last call for the item (no later stage, no deletion, no publish) and the
\* outputs of the stages that had returned stay on disk; in the next run of
\* the item the stages that had returned are skipped and the stage that failed
\* is not skipped.
C15_FailureStopsAndResumes ==
    /\ failed \in file_stages =>
         /\ invoked # <<>>
         /\ invoked[Len(invoked)].stage = failed
         /\ invoked[Len(invoked)].ret = Raised
         /\ ~completed
         /\ \A i \in 1..Len(invoked) :
              /\ invoked[i].stage \notin {"cleanup", "publish"}
              /\ succeeded(invoked[i]) => Exists(fs, invoked[i].ret)
    /\ (later_run_of_watched /\ watched_last.failed \in file_stages) =>
         \A i \in 1..Len(invoked) :
            LET c == invoked[i]
            IN  /\ (\E j \in 1..Len(watched_last.ok) : watched_last.ok[j] = c.stage)
                      => c.existed
                /\ c.stage = watched_last.failed => ~c.existed

====
